---- MODULE Spec2Model ----
(***************************************************************************)
(* Model of the ESP8266 authentication server: the DeviceModel singleton   *)
(* (models/device.js), the /auth routes (routes/auth.js) and the /admin    *)
(* routes (routes/admin.js).                                               *)
(*                                                                         *)
(* Node.js runs every handler on one thread: a handler runs without        *)
(* interruption up to its next `await`, so each action below is the code   *)
(* between two awaits.  The file system and the token service complete     *)
(* the awaited calls in any order.                                         *)
(***************************************************************************)
EXTENDS Integers, Sequences, FiniteSets, TLC

VARIABLES
  devices,   \* DeviceModel.devices: the in-memory registry, key -> device
  disk,      \* content of database/devices.json
  req,       \* the asynchronous calls in flight: 0 is the constructor's
             \* loadDevices(), 1..MaxInFlight are HTTP handlers
  now,       \* the wall clock read by new Date()
  resp,      \* the HTTP response sent by the last step, if it sent one
  nops,      \* number of HTTP requests received so far
  saveFailed,     \* history: saveDevices() has logged 'Error saving devices'
  credsReturned,  \* history: per key, register responses that carried credentials
  tokensReturned, \* history: per key, /auth/token responses that carried a token
  revokedKeys     \* history: the keys revokeDevice has been applied to

vars == <<devices, disk, req, now, resp, nops, saveFailed, credsReturned,
          tokensReturned, revokedKeys>>

----------------------------------------------------------------------------
(* Bounds of the model *)

MaxInFlight == 2
MaxOps == 2
MaxClock == 1
MaxLen == 3

----------------------------------------------------------------------------
(* Values *)

Undefined == "undefined"     \* JavaScript undefined: a missing property or field
Null == "null"               \* JavaScript null

\* database/devices.json: missing, unreadable or not valid JSON, or a JSON text
NoFile == [state |-> "ENOENT", text |-> << >>]
Malformed == [state |-> "malformed", text |-> << >>]
File(text) == [state |-> "file", text |-> text]

\* Device identifiers as the characters of the string.
RawIds == { <<"a", "-", "b">>, <<"A", ":", "B">>, <<"C", ":", "D">> }

\* The empty string stands for a missing (or empty) deviceId: both are falsy.
NoId == << >>

\* crypto.randomBytes(32).toString('hex'): the values the generator can return
Secrets == { "s1", "s2" }
\* A secret sent as a JSON number: express.json() hands it over as a number
NumberSecret == "12345 (number)"
isString(v) == v # NumberSecret
\* secrets a client can send; "" is a missing (or empty) secret
ProvidedSecrets == Secrets \cup { "guess", "", NumberSecret }
Reasons == { "lost", Undefined }

\* The idToken a client can send to /auth/verify: none, one that Firebase
\* issued for the uid A:B, or one that Firebase did not issue
IssuedIdToken == "idToken of A:B"
IdTokens == { "", IssuedIdToken, "forged" }
\* decodedToken.uid
uid(idToken) == <<"A", ":", "B">>
SERVER_SECRET == "server-key"

\* The metadata a caller can send with /admin/register: none, or an object.
Metadatas ==
  { [kind |-> "undefined", obj |-> << >>],
    [kind |-> "null", obj |-> << >>],
    [kind |-> "object", obj |-> [firmwareVersion |-> "1.2.3"]] }

\* More metadata objects: a recognized key with an empty value next to a key
\* of the caller's own, and the other recognized key
MoreMetadatas ==
  Metadatas \cup
    { [kind |-> "object", obj |-> [firmwareVersion |-> "", location |-> "lab"]],
      [kind |-> "object", obj |-> [hardwareVersion |-> "rev2"]] }

\* new Date().toISOString() for the clock values of the model
ISOStrings == << "T0", "T1", "T2", "T3", "T4", "T5", "T6", "T7", "T8", "T9" >>
toISOString(t) == ISOStrings[t + 1]

----------------------------------------------------------------------------
(* routes/auth.js: deviceId.toUpperCase().replace(/[:-]/g, ':') *)

toUpperCase(c) ==
  CASE c = "a" -> "A"
    [] c = "b" -> "B"
    [] c = "c" -> "C"
    [] c = "d" -> "D"
    [] OTHER -> c

\* Mutant of replaceSeparator: the separators are left as they are
replaceSeparator_Kept(c) == c

replaceSeparator(c) == IF c \in { ":", "-" } THEN ":" ELSE c

normalize(raw) == [i \in DOMAIN raw |-> replaceSeparator(toUpperCase(raw[i]))]

Keys == RawIds \cup { normalize(r) : r \in RawIds }

----------------------------------------------------------------------------
(* models/device.js: the registry and its JSON file *)

EmptyRegistry == [k \in {} |-> Undefined]

DeviceFields ==
  { "deviceId", "secret", "status", "registeredAt", "lastAuthAt", "authCount",
    "metadata", "revokedAt", "revokeReason" }

\* The properties revokeDevice adds later: a device that was never revoked has
\* none, which reads as undefined.
OptionalFields == { "revokedAt", "revokeReason" }

\* this.devices[deviceId] is truthy
Has(devs, id) == id \in DOMAIN devs

Put(devs, id, device) ==
  [k \in (DOMAIN devs) \cup {id} |-> IF k = id THEN device ELSE devs[k]]

\* Mutant of stringifyDevice: a null property is dropped like an undefined one
stringifyDevice_DropsNull(d) ==
  [f \in { g \in DOMAIN d :
             g \in OptionalFields \cup { "lastAuthAt" }
               => d[g] \notin { Undefined, Null } } |-> d[f]]

\* JSON.stringify drops the properties whose value is undefined
stringifyDevice(d) ==
  [f \in { g \in DOMAIN d : g \in OptionalFields => d[g] # Undefined } |-> d[f]]

stringify(devs) == [k \in DOMAIN devs |-> stringifyDevice(devs[k])]

\* JSON.parse: a property the text does not have reads as undefined
parseDevice(j) ==
  [f \in DeviceFields |-> IF f \in DOMAIN j THEN j[f] ELSE Undefined]

parse(text) == [k \in DOMAIN text |-> parseDevice(text[k])]

\* metadata: { firmwareVersion: metadata.firmwareVersion || 'unknown',
\*             hardwareVersion: metadata.hardwareVersion || 'unknown', ...metadata }
truthy(value) == value \notin { "", Undefined, Null }
property(obj, f) == IF f \in DOMAIN obj THEN obj[f] ELSE Undefined
defaults(obj) ==
  [f \in { "firmwareVersion", "hardwareVersion" } |->
     IF truthy(property(obj, f)) THEN property(obj, f) ELSE "unknown"]
\* { ...a, ...b }
spread(a, b) ==
  [f \in DOMAIN a \cup DOMAIN b |-> IF f \in DOMAIN b THEN b[f] ELSE a[f]]

\* Mutant of deviceMetadata: the defaults are written after the spread
deviceMetadata_DefaultsLast(obj) == spread(obj, defaults(obj))

deviceMetadata(obj) == spread(defaults(obj), obj)

\* Mutant of newDevice: registration counts as a first authentication
newDevice_Authenticated(deviceId, secret, t, obj) ==
  [ deviceId |-> deviceId,
    secret |-> secret,
    status |-> "active",
    registeredAt |-> toISOString(t),
    lastAuthAt |-> toISOString(t),
    authCount |-> 1,
    metadata |-> deviceMetadata(obj),
    revokedAt |-> Undefined,
    revokeReason |-> Undefined ]

newDevice(deviceId, secret, t, obj) ==
  [ deviceId |-> deviceId,
    secret |-> secret,
    status |-> "active",
    registeredAt |-> toISOString(t),
    lastAuthAt |-> Null,
    authCount |-> 0,
    metadata |-> deviceMetadata(obj),
    revokedAt |-> Undefined,
    revokeReason |-> Undefined ]

\* crypto.createHmac('sha256', key).update(message).digest(); update() throws
\* ERR_INVALID_ARG_TYPE for a message that is not a string
TypeError == << "TypeError" >>
hmac(key, message) ==
  IF isString(message) THEN << "hmac-sha256", key, message >> ELSE TypeError

\* crypto.timingSafeEqual on two digests of equal length
timingSafeEqual(hash1, hash2) == hash1 = hash2

\* verifyDevice: the device, or null for one of three logged reasons, or the
\* exception of the keyed hash
verifyDevice(devs, deviceId, providedSecret) ==
  IF ~Has(devs, deviceId) THEN "unknown device"
  ELSE IF devs[deviceId].status # "active" THEN "inactive"
  ELSE IF hmac(SERVER_SECRET, providedSecret) = TypeError THEN "throws"
  ELSE IF ~timingSafeEqual(hmac(SERVER_SECRET, providedSecret),
                           hmac(SERVER_SECRET, devs[deviceId].secret))
       THEN "invalid secret"
  ELSE "verified"

\* Mutant of getDevice: the device is returned as stored
getDevice_Unstripped(devs, deviceId) == devs[deviceId]

\* getDevice: const { secret, ...safeDevice } = device
getDevice(devs, deviceId) ==
  [f \in (DOMAIN devs[deviceId]) \ { "secret" } |-> devs[deviceId][f]]

\* listDevices: Object.keys(this.devices).map(id => this.getDevice(id))
listDevices(devs) == { getDevice(devs, id) : id \in DOMAIN devs }

\* Mutant of recordAuth: the authentication is counted, its time is not kept
recordAuth_CountOnly(devs, deviceId, t) ==
  [devs EXCEPT ![deviceId].authCount = @ + 1]

\* updateLastAuth: the synchronous part
recordAuth(devs, deviceId, t) ==
  [devs EXCEPT ![deviceId].lastAuthAt = toISOString(t),
               ![deviceId].authCount = @ + 1]

\* Mutant of markRevoked: a device that is revoked already is left as it is
markRevoked_Once(devs, deviceId, reason, t) ==
  IF devs[deviceId].status = "revoked" THEN devs
  ELSE [devs EXCEPT ![deviceId].status = "revoked",
                    ![deviceId].revokedAt = toISOString(t),
                    ![deviceId].revokeReason =
                      IF reason = Undefined THEN "" ELSE reason]

\* Mutant of markRevoked: every device of the registry is revoked
markRevoked_All(devs, deviceId, reason, t) ==
  [k \in DOMAIN devs |->
     [devs[k] EXCEPT !.status = "revoked",
                     !.revokedAt = toISOString(t),
                     !.revokeReason = IF reason = Undefined THEN "" ELSE reason]]

\* Mutant of markRevoked: the reason parameter has no default value
markRevoked_NoDefault(devs, deviceId, reason, t) ==
  [devs EXCEPT ![deviceId].status = "revoked",
               ![deviceId].revokedAt = toISOString(t),
               ![deviceId].revokeReason = reason]

\* revokeDevice(deviceId, reason = ''): the synchronous part
markRevoked(devs, deviceId, reason, t) ==
  [devs EXCEPT ![deviceId].status = "revoked",
               ![deviceId].revokedAt = toISOString(t),
               ![deviceId].revokeReason = IF reason = Undefined THEN "" ELSE reason]

----------------------------------------------------------------------------
(* The calls in flight *)

Procs == 0 .. MaxInFlight      \* 0 is loadDevices() started by the constructor
Handlers == 1 .. MaxInFlight

\* failed and later are history: the call has logged an error of its save or
\* load; the call applied its mutation after the save of another had failed
Idle ==
  [op |-> "idle", pc |-> "idle", key |-> NoId, raw |-> NoId, secret |-> "",
   token |-> "", snap |-> EmptyRegistry, failed |-> FALSE, later |-> FALSE]

\* loadDevices() waiting for fs.readFile
Loading == [Idle EXCEPT !.op = "load", !.pc = "read"]
\* loadDevices() when it has returned
Loaded == [Idle EXCEPT !.op = "load", !.pc = "done"]
\* loadDevices() when it has logged an error and returned
LoadFailed == [Loaded EXCEPT !.failed = TRUE]

\* new Date(): the clock never goes back
Clock == { t \in now .. now + 1 : t <= MaxClock }

Respond(op, status, body) == [op |-> op, status |-> status, body |-> body]
NoResponse == Respond("none", 0, << >>)

\* A state of devices.json left by an earlier run of the server
EarlierDevice == newDevice(<<"A", ":", "B">>, "s1", 0, << >>)
InitDisks ==
  { NoFile, Malformed, File(stringify(EmptyRegistry)),
    File(stringify(Put(EmptyRegistry, <<"A", ":", "B">>, EarlierDevice))) }

\* module.exports = new DeviceModel(): devices = {} and loadDevices() is
\* waiting for fs.readFile
Init ==
  /\ devices = EmptyRegistry
  /\ disk \in InitDisks
  /\ req = [p \in Procs |-> IF p = 0 THEN Loading ELSE Idle]
  /\ now = 0
  /\ resp = NoResponse
  /\ nops = 0
  /\ saveFailed = FALSE
  /\ credsReturned = [k \in Keys |-> 0]
  /\ tokensReturned = [k \in Keys |-> 0]
  /\ revokedKeys = {}

----------------------------------------------------------------------------
(* loadDevices *)

\* fs.readFile has read devices.json, or has found none; its promise is not
\* settled yet
LoadRead ==
  /\ req[0].pc = "read"
  /\ req' = [req EXCEPT ![0].pc = disk.state, ![0].snap = disk.text]
  /\ resp' = NoResponse
  /\ UNCHANGED <<devices, disk, now, nops, saveFailed, credsReturned,
                 tokensReturned, revokedKeys>>

\* Mutant of LoadParsed: the text that was read is not installed
LoadParsed_Empty ==
  /\ req[0].pc = "file"
  /\ devices' = EmptyRegistry
  /\ req' = [req EXCEPT ![0] = Loaded]
  /\ resp' = NoResponse
  /\ UNCHANGED <<disk, now, nops, saveFailed, credsReturned, tokensReturned,
                 revokedKeys>>

\* this.devices = JSON.parse(data)
LoadParsed ==
  /\ req[0].pc = "file"
  /\ devices' = parse(req[0].snap)
  /\ req' = [req EXCEPT ![0] = Loaded]
  /\ resp' = NoResponse
  /\ UNCHANGED <<disk, now, nops, saveFailed, credsReturned, tokensReturned,
                 revokedKeys>>

\* ENOENT: this.devices = {}; await this.saveDevices()
LoadNoFile ==
  /\ req[0].pc = "ENOENT"
  /\ devices' = EmptyRegistry
  /\ req' = [req EXCEPT ![0].pc = "mkdir"]
  /\ resp' = NoResponse
  /\ UNCHANGED <<disk, now, nops, saveFailed, credsReturned, tokensReturned,
                 revokedKeys>>

\* Mutant of LoadError: the error is thrown on, out of loadDevices
LoadError_Rethrown ==
  /\ req[0].pc = "malformed"
  /\ req' = [req EXCEPT ![0].pc = "unhandled rejection"]
  /\ resp' = NoResponse
  /\ UNCHANGED <<devices, disk, now, nops, saveFailed, credsReturned,
                 tokensReturned, revokedKeys>>

\* fs.readFile rejected for another reason than ENOENT, or JSON.parse threw:
\* 'Error loading devices' is logged, this.devices is left as it is
LoadError ==
  /\ req[0].pc = "malformed"
  /\ req' = [req EXCEPT ![0] = LoadFailed]
  /\ resp' = NoResponse
  /\ UNCHANGED <<devices, disk, now, nops, saveFailed, credsReturned,
                 tokensReturned, revokedKeys>>

----------------------------------------------------------------------------
(* saveDevices, for the call p that awaits it *)

\* await fs.mkdir resolved: JSON.stringify(this.devices) is evaluated and
\* fs.writeFile is started with that text
SaveMkdirDone(p) ==
  /\ req[p].pc = "mkdir"
  /\ req' = [req EXCEPT ![p].pc = "write", ![p].snap = stringify(devices)]
  /\ resp' = NoResponse
  /\ UNCHANGED <<devices, disk, now, nops, saveFailed, credsReturned,
                 tokensReturned, revokedKeys>>

\* fs.mkdir rejected: the error is logged and saveDevices returns
SaveMkdirFailed(p) ==
  /\ req[p].pc = "mkdir"
  /\ req' = [req EXCEPT ![p].pc = "saved", ![p].failed = TRUE]
  /\ saveFailed' = TRUE
  /\ resp' = NoResponse
  /\ UNCHANGED <<devices, disk, now, nops, credsReturned, tokensReturned, revokedKeys>>

\* fs.writeFile resolved: the file holds the text this call serialized
SaveWriteDone(p) ==
  /\ req[p].pc = "write"
  /\ disk' = File(req[p].snap)
  /\ req' = [req EXCEPT ![p].pc = "saved", ![p].snap = EmptyRegistry]
  /\ resp' = NoResponse
  /\ UNCHANGED <<devices, now, nops, saveFailed, credsReturned,
                 tokensReturned, revokedKeys>>

\* fs.writeFile rejected: the error is logged and saveDevices returns.  The
\* file is as it was (the open failed) or cut short (a write failed).
SaveWriteFailed(p) ==
  /\ req[p].pc = "write"
  /\ disk' \in { disk, Malformed }
  /\ req' = [req EXCEPT ![p].pc = "saved", ![p].failed = TRUE,
                        ![p].snap = EmptyRegistry]
  /\ saveFailed' = TRUE
  /\ resp' = NoResponse
  /\ UNCHANGED <<devices, now, nops, credsReturned, tokensReturned, revokedKeys>>

----------------------------------------------------------------------------
(* The HTTP handlers.  A handler that awaits takes the lowest free slot. *)

\* !deviceId and !secret: the field is missing (or empty)
falsyId(deviceId) == deviceId = NoId

\* Mutant of falsySecret: the route does not look at the secret field
falsySecret_Ignored(secret) == FALSE

falsySecret(secret) == secret = ""

\* The calls whose save has failed and that have not answered yet
FailedUnanswered ==
  { q \in Handlers : req[q].failed /\ req[q].pc = "saved" }

FreeSlot(s) ==
  /\ req[s].op = "idle"
  /\ \A q \in Handlers : q < s => req[q].op # "idle"

Finish(s) == [req EXCEPT ![s] = Idle]

\* Mutant of alreadyRegistered: the existence check is missing
alreadyRegistered_Missing(devs, deviceId) == FALSE

\* registerDevice: if (this.devices[deviceId]) throw
alreadyRegistered(devs, deviceId) == Has(devs, deviceId)

\* POST /admin/register up to the await in saveDevices
RegisterCall(raw, md) ==
  /\ nops' = nops + 1
  /\ IF falsyId(raw)
     THEN /\ resp' = Respond("register", 400, [error |-> "Missing deviceId"])
          /\ UNCHANGED <<devices, req, now>>
     ELSE IF alreadyRegistered(devices, raw)
     THEN /\ resp' = Respond("register", 400,
                             [error |-> "Device already registered"])
          /\ UNCHANGED <<devices, req, now>>
     ELSE IF md.kind = "null"
     THEN /\ resp' = Respond("register", 400,
                             [error |-> "Cannot read properties of null"])
          /\ UNCHANGED <<devices, req, now>>
     ELSE \E s \in Handlers, secret \in Secrets, t \in Clock :
            /\ FreeSlot(s)
            /\ now' = t
            /\ devices' = Put(devices, raw, newDevice(raw, secret, t, md.obj))
            /\ req' = [req EXCEPT ![s] =
                         [Idle EXCEPT !.op = "register", !.pc = "mkdir",
                                      !.key = raw, !.raw = raw,
                                      !.secret = secret,
                                      !.later = FailedUnanswered # {}]]
            /\ resp' = NoResponse
  /\ UNCHANGED <<disk, saveFailed, credsReturned, tokensReturned, revokedKeys>>

\* Mutant of RegisterReturn: saveDevices rethrows its error and the route's
\* catch block answers 400
RegisterReturn_Rethrown(s) ==
  /\ req[s].op = "register"
  /\ req[s].pc = "saved"
  /\ resp' = IF req[s].failed
             THEN Respond("register", 400, [error |-> "ENOSPC"])
             ELSE Respond("register", 200,
                          [message |-> "Device registered successfully",
                           device |-> [deviceId |-> req[s].raw,
                                       secret |-> req[s].secret]])
  /\ credsReturned' = [credsReturned EXCEPT ![req[s].key] = @ + 1]
  /\ req' = Finish(s)
  /\ UNCHANGED <<devices, disk, now, nops, saveFailed, tokensReturned,
                 revokedKeys>>

\* registerDevice returns { deviceId, secret }; the route sends it
RegisterReturn(s) ==
  /\ req[s].op = "register"
  /\ req[s].pc = "saved"
  /\ resp' = Respond("register", 200,
                     [message |-> "Device registered successfully",
                      device |-> [deviceId |-> req[s].raw,
                                  secret |-> req[s].secret]])
  /\ credsReturned' = [credsReturned EXCEPT ![req[s].key] = @ + 1]
  /\ req' = Finish(s)
  /\ UNCHANGED <<devices, disk, now, nops, saveFailed, tokensReturned,
                 revokedKeys>>

\* POST /admin/revoke up to the await in saveDevices
RevokeCall(raw, reason) ==
  /\ nops' = nops + 1
  /\ IF falsyId(raw)
     THEN /\ resp' = Respond("revoke", 400, [error |-> "Missing deviceId"])
          /\ UNCHANGED <<devices, req, now, revokedKeys>>
     ELSE IF ~Has(devices, raw)
     THEN /\ resp' = Respond("revoke", 400, [error |-> "Device not found"])
          /\ UNCHANGED <<devices, req, now, revokedKeys>>
     ELSE \E s \in Handlers, t \in Clock :
            /\ FreeSlot(s)
            /\ now' = t
            /\ devices' = markRevoked(devices, raw, reason, t)
            /\ revokedKeys' = revokedKeys \cup {raw}
            /\ req' = [req EXCEPT ![s] =
                         [Idle EXCEPT !.op = "revoke", !.pc = "mkdir",
                                      !.key = raw, !.raw = raw,
                                      !.later = FailedUnanswered # {}]]
            /\ resp' = NoResponse
  /\ UNCHANGED <<disk, saveFailed, credsReturned, tokensReturned>>

RevokeReturn(s) ==
  /\ req[s].op = "revoke"
  /\ req[s].pc = "saved"
  /\ resp' = Respond("revoke", 200,
                     [message |-> "Device revoked successfully",
                      deviceId |-> req[s].raw])
  /\ req' = Finish(s)
  /\ UNCHANGED <<devices, disk, now, nops, saveFailed, credsReturned,
                 tokensReturned, revokedKeys>>

\* POST /auth/token up to the await of admin.auth().createCustomToken; an
\* exception of verifyDevice is answered by the catch block
TokenCall(raw, secret) ==
  /\ nops' = nops + 1
  /\ IF falsyId(raw) \/ falsySecret(secret)
     THEN /\ resp' = Respond("token", 400,
                             [error |-> "Missing required fields: deviceId, secret"])
          /\ UNCHANGED req
     ELSE IF verifyDevice(devices, normalize(raw), secret) = "throws"
     THEN /\ resp' = Respond("token", 500, [error |-> "Failed to create token"])
          /\ UNCHANGED req
     ELSE IF verifyDevice(devices, normalize(raw), secret) # "verified"
     THEN /\ resp' = Respond("token", 401, [error |-> "Invalid credentials"])
          /\ UNCHANGED req
     ELSE \E s \in Handlers :
            /\ FreeSlot(s)
            /\ req' = [req EXCEPT ![s] =
                         [Idle EXCEPT !.op = "token", !.pc = "issue",
                                      !.key = normalize(raw), !.raw = raw]]
            /\ resp' = NoResponse
  /\ UNCHANGED <<devices, disk, now, saveFailed, credsReturned, tokensReturned, revokedKeys>>

TokenResponse(token) ==
  Respond("token", 200,
          [customToken |-> token, expiresIn |-> 3600,
           message |-> "Authentication successful"])

\* Mutant of TokenIssued: updateLastAuth is not awaited, the token is sent
\* while the save has not started
TokenIssued_NotAwaited(s) ==
  /\ req[s].op = "token"
  /\ req[s].pc = "issue"
  /\ resp' = TokenResponse("jwt")
  /\ tokensReturned' = [tokensReturned EXCEPT ![req[s].key] = @ + 1]
  /\ devices' = IF Has(devices, req[s].key)
                THEN recordAuth(devices, req[s].key, now)
                ELSE devices
  /\ req' = Finish(s)
  /\ UNCHANGED <<disk, now, nops, saveFailed, credsReturned, revokedKeys>>

\* createCustomToken resolved; updateLastAuth runs up to its await, or returns
\* at once for a device that is not in the registry and the token is sent
TokenIssued(s) ==
  /\ req[s].op = "token"
  /\ req[s].pc = "issue"
  /\ IF Has(devices, req[s].key)
     THEN \E t \in Clock :
            /\ now' = t
            /\ devices' = recordAuth(devices, req[s].key, t)
            /\ req' = [req EXCEPT ![s].pc = "mkdir", ![s].token = "jwt",
                                  ![s].later = FailedUnanswered # {}]
            /\ resp' = NoResponse
            /\ UNCHANGED tokensReturned
     ELSE /\ resp' = TokenResponse("jwt")
          /\ tokensReturned' = [tokensReturned EXCEPT ![req[s].key] = @ + 1]
          /\ req' = Finish(s)
          /\ UNCHANGED <<devices, now>>
  /\ UNCHANGED <<disk, nops, saveFailed, credsReturned, revokedKeys>>

\* Mutant of TokenIssueFailed: updateLastAuth runs before the token is awaited,
\* so a failed issuance has already been recorded
TokenIssueFailed_Recorded(s) ==
  /\ req[s].op = "token"
  /\ req[s].pc = "issue"
  /\ Has(devices, req[s].key)
  /\ resp' = Respond("token", 500, [error |-> "Failed to create token"])
  /\ devices' = recordAuth(devices, req[s].key, now)
  /\ req' = Finish(s)
  /\ UNCHANGED <<disk, now, nops, saveFailed, credsReturned, tokensReturned,
                 revokedKeys>>

\* createCustomToken rejected: the catch block answers 500
TokenIssueFailed(s) ==
  /\ req[s].op = "token"
  /\ req[s].pc = "issue"
  /\ resp' = Respond("token", 500, [error |-> "Failed to create token"])
  /\ req' = Finish(s)
  /\ UNCHANGED <<devices, disk, now, nops, saveFailed, credsReturned,
                 tokensReturned, revokedKeys>>

\* updateLastAuth returned: res.json({ customToken, expiresIn: 3600, ... })
TokenReturn(s) ==
  /\ req[s].op = "token"
  /\ req[s].pc = "saved"
  /\ resp' = TokenResponse(req[s].token)
  /\ tokensReturned' = [tokensReturned EXCEPT ![req[s].key] = @ + 1]
  /\ req' = Finish(s)
  /\ UNCHANGED <<devices, disk, now, nops, saveFailed, credsReturned,
                 revokedKeys>>

\* Mutant of GetCall: the route sends whatever getDevice returns
GetCall_Unchecked(raw) ==
  /\ nops' = nops + 1
  /\ resp' = IF Has(devices, raw)
             THEN Respond("get", 200, [device |-> getDevice(devices, raw)])
             ELSE Respond("get", 200, [device |-> Null])
  /\ UNCHANGED <<devices, disk, req, now, saveFailed, credsReturned,
                 tokensReturned, revokedKeys>>

\* GET /admin/devices/:deviceId
GetCall(raw) ==
  /\ nops' = nops + 1
  /\ resp' = IF Has(devices, raw)
             THEN Respond("get", 200, [device |-> getDevice(devices, raw)])
             ELSE Respond("get", 404, [error |-> "Device not found"])
  /\ UNCHANGED <<devices, disk, req, now, saveFailed, credsReturned,
                 tokensReturned, revokedKeys>>

\* POST /auth/verify up to the await of admin.auth().verifyIdToken
VerifyCall(idToken) ==
  /\ nops' = nops + 1
  /\ IF idToken = ""
     THEN /\ resp' = Respond("verify", 400, [error |-> "Missing idToken"])
          /\ UNCHANGED req
     ELSE \E s \in Handlers :
            /\ FreeSlot(s)
            /\ req' = [req EXCEPT ![s] =
                         [Idle EXCEPT !.op = "verify", !.pc = "verifyIdToken",
                                      !.token = idToken]]
            /\ resp' = NoResponse
  /\ UNCHANGED <<devices, disk, now, saveFailed, credsReturned,
                 tokensReturned, revokedKeys>>

\* Mutant of VerifyDone: a verified token counts as an authentication of the
\* device
VerifyDone_Recorded(s) ==
  /\ req[s].op = "verify"
  /\ req[s].token = IssuedIdToken
  /\ resp' = IF Has(devices, uid(req[s].token))
             THEN Respond("verify", 200,
                          [valid |-> TRUE, deviceId |-> uid(req[s].token),
                           claims |-> [uid |-> uid(req[s].token)]])
             ELSE Respond("verify", 401,
                          [valid |-> FALSE, error |-> "Device not found"])
  /\ devices' = IF Has(devices, uid(req[s].token))
                THEN recordAuth(devices, uid(req[s].token), now)
                ELSE devices
  /\ req' = Finish(s)
  /\ UNCHANGED <<disk, now, nops, saveFailed, credsReturned,
                 tokensReturned, revokedKeys>>

\* verifyIdToken resolved: res.json({ valid: true, deviceId, claims })
VerifyDone(s) ==
  /\ req[s].op = "verify"
  /\ req[s].token = IssuedIdToken
  /\ resp' = Respond("verify", 200,
                     [valid |-> TRUE, deviceId |-> uid(req[s].token),
                      claims |-> [uid |-> uid(req[s].token)]])
  /\ req' = Finish(s)
  /\ UNCHANGED <<devices, disk, now, nops, saveFailed, credsReturned,
                 tokensReturned, revokedKeys>>

\* verifyIdToken rejected (a token Firebase did not issue, an expired one, or
\* Firebase not reachable): the catch block answers 401
VerifyFailed(s) ==
  /\ req[s].op = "verify"
  /\ resp' = Respond("verify", 401,
                     [valid |-> FALSE, error |-> "verifyIdToken rejected"])
  /\ req' = Finish(s)
  /\ UNCHANGED <<devices, disk, now, nops, saveFailed, credsReturned,
                 tokensReturned, revokedKeys>>

\* GET /admin/devices
ListCall ==
  /\ nops' = nops + 1
  /\ resp' = Respond("list", 200,
                     [count |-> Cardinality(DOMAIN devices),
                      devices |-> listDevices(devices)])
  /\ UNCHANGED <<devices, disk, req, now, saveFailed, credsReturned,
                 tokensReturned, revokedKeys>>

----------------------------------------------------------------------------

\* An HTTP request arrives, while fewer than n have
RegisterRequest(n, raw, md) == nops < n /\ RegisterCall(raw, md)
RevokeRequest(n, raw, reason) == nops < n /\ RevokeCall(raw, reason)
TokenRequest(n, raw, secret) == nops < n /\ TokenCall(raw, secret)
GetRequest(n, raw) == nops < n /\ GetCall(raw)
ListRequest(n) == nops < n /\ ListCall
VerifyRequest(n, idToken) == nops < n /\ VerifyCall(idToken)

Call(n, ids, metadatas, reasons, secrets) ==
  \/ \E raw \in ids \cup {NoId}, md \in metadatas : RegisterRequest(n, raw, md)
  \/ \E raw \in ids \cup {NoId}, reason \in reasons : RevokeRequest(n, raw, reason)
  \/ \E raw \in ids \cup {NoId}, secret \in secrets : TokenRequest(n, raw, secret)
  \/ \E raw \in ids : GetRequest(n, raw)
  \/ ListRequest(n)
  \/ \E idToken \in IdTokens : VerifyRequest(n, idToken)

\* The file system completes a step of a saveDevices call
Save ==
  \/ \E p \in Procs : SaveMkdirDone(p)
  \/ \E p \in Procs : SaveMkdirFailed(p)
  \/ \E p \in Procs : SaveWriteDone(p)
  \/ \E p \in Procs : SaveWriteFailed(p)

\* A handler continues after its await
Continue ==
  \/ \E s \in Handlers : RegisterReturn(s)
  \/ \E s \in Handlers : RevokeReturn(s)
  \/ \E s \in Handlers : TokenIssued(s)
  \/ \E s \in Handlers : TokenIssueFailed(s)
  \/ \E s \in Handlers : TokenReturn(s)
  \/ \E s \in Handlers : VerifyDone(s)
  \/ \E s \in Handlers : VerifyFailed(s)

Load == LoadRead \/ LoadParsed \/ LoadNoFile \/ LoadError

Next ==
  \/ Load
  \/ Save
  \/ Continue
  \/ Call(MaxOps, RawIds, Metadatas, Reasons, ProvidedSecrets)

Spec == Init /\ [][Next]_vars

----------------------------------------------------------------------------
(* The server once the constructor's loadDevices() has returned: the       *)
(* registry is what the file held and only HTTP handlers run.              *)

InitServing ==
  /\ disk \in { d \in InitDisks : d.state = "file" }
  /\ devices = parse(disk.text)
  /\ req = [p \in Procs |-> IF p = 0 THEN Loaded ELSE Idle]
  /\ now = 0
  /\ resp = NoResponse
  /\ nops = 0
  /\ saveFailed = FALSE
  /\ credsReturned = [k \in Keys |-> 0]
  /\ tokensReturned = [k \in Keys |-> 0]
  /\ revokedKeys = {}

NextServing ==
  \/ Save
  \/ Continue
  \/ Call(MaxOps, RawIds, Metadatas, Reasons, ProvidedSecrets)

SpecServing == InitServing /\ [][NextServing]_vars

----------------------------------------------------------------------------
(* The server from its start, serving requests for one device only, which  *)
(* leaves room for one more request.                                       *)

OneDevice == { <<"A", ":", "B">> }
NoMetadata == { md \in Metadatas : md.kind = "undefined" }

NextOneDevice ==
  \/ Load
  \/ Save
  \/ Continue
  \/ Call(MaxOps + 1, OneDevice, NoMetadata, {"lost"}, Secrets)

SpecOneDevice == Init /\ [][NextOneDevice]_vars

----------------------------------------------------------------------------
(* The server once loadDevices() has returned, started on a devices.json   *)
(* with two devices.                                                       *)

OtherDevice == newDevice(<<"C", ":", "D">>, "s2", 0, << >>)
TwoDevices ==
  Put(Put(EmptyRegistry, <<"A", ":", "B">>, EarlierDevice),
      <<"C", ":", "D">>, OtherDevice)

InitTwoDevices ==
  /\ disk = File(stringify(TwoDevices))
  /\ devices = parse(disk.text)
  /\ req = [p \in Procs |-> IF p = 0 THEN Loaded ELSE Idle]
  /\ now = 0
  /\ resp = NoResponse
  /\ nops = 0
  /\ saveFailed = FALSE
  /\ credsReturned = [k \in Keys |-> 0]
  /\ tokensReturned = [k \in Keys |-> 0]
  /\ revokedKeys = {}

SpecTwoDevices == InitTwoDevices /\ [][NextServing]_vars

----------------------------------------------------------------------------
(* The server once loadDevices() has returned, with callers that send more *)
(* kinds of metadata.                                                      *)

NextMetadata ==
  \/ Save
  \/ Continue
  \/ Call(MaxOps, RawIds, MoreMetadatas, Reasons, ProvidedSecrets)

SpecMetadata == InitServing /\ [][NextMetadata]_vars

----------------------------------------------------------------------------
(* The first lines of POST /auth/token on their own: a request with a      *)
(* deviceId of up to MaxLen characters has arrived and the route computes  *)
(* normalizedDeviceId.                                                     *)

IdCharacters == { "a", "A", "b", "0", "-", ":" }
DeviceIds == UNION { [1 .. n -> IdCharacters] : n \in 1 .. MaxLen }

Received(raw) ==
  [Idle EXCEPT !.op = "token", !.pc = "received", !.raw = raw,
               !.secret = "guess"]

InitNormalize ==
  /\ \E raw \in DeviceIds :
       req = [p \in Procs |->
                IF p = 0 THEN Loaded ELSE IF p = 1 THEN Received(raw) ELSE Idle]
  /\ devices = EmptyRegistry
  /\ disk = File(stringify(EmptyRegistry))
  /\ now = 0
  /\ resp = NoResponse
  /\ nops = 1
  /\ saveFailed = FALSE
  /\ credsReturned = [k \in Keys |-> 0]
  /\ tokensReturned = [k \in Keys |-> 0]
  /\ revokedKeys = {}

\* const normalizedDeviceId = deviceId.toUpperCase().replace(/[:-]/g, ':')
NormalizeId(s) ==
  /\ req[s].pc = "received"
  /\ req' = [req EXCEPT ![s].pc = "normalized",
                        ![s].key = normalize(req[s].raw)]
  /\ resp' = NoResponse
  /\ UNCHANGED <<devices, disk, now, nops, saveFailed, credsReturned,
                 tokensReturned, revokedKeys>>

NextNormalize == \E s \in Handlers : NormalizeId(s)

SpecNormalize == InitNormalize /\ [][NextNormalize]_vars

----------------------------------------------------------------------------
(* Properties *)

InFlight(s, op) == req[s].op = op

\* The handler slot whose call ended in this step with the given operation
Ended(s, op) == req[s].op = op /\ req'[s].op = "idle"

\* The handler slot in which a call of the given operation started to wait
Started(s, op) == req[s].op = "idle" /\ req'[s].op = op

AlreadyRegisteredResponse ==
  Respond("register", 400, [error |-> "Device already registered"])

\* C1: register(id) for an id that is in the registry answers 'Device already
\* registered' and leaves the registry as it was: the same devices, each with
\* the same secret and the same other fields.
C1_RegisterExistingFails ==
  [][\A raw \in RawIds, md \in Metadatas :
       (RegisterCall(raw, md) /\ raw \in DOMAIN devices)
         => (resp' = AlreadyRegisteredResponse /\ devices' = devices)]_vars

\* C1 witness: a register call was refused for a device that is registered
C1_Witness ==
  /\ resp = AlreadyRegisteredResponse
  /\ DOMAIN devices # {}

\* C2: two register calls with the same deviceId are never both past the
\* existence check, so never both return credentials.  (A register call in
\* flight has inserted its device and returns { deviceId, secret } when its
\* save ends.)
C2_OneConcurrentRegisterPerId ==
  \A s1, s2 \in Handlers :
    (s1 # s2 /\ InFlight(s1, "register") /\ InFlight(s2, "register"))
      => req[s1].key # req[s2].key

\* C3: once revokeDevice has been applied to a device, every later
\* /auth/token call for it answers 401 and starts no token issuance, also with
\* the stored secret.
C3_RevokedNeverAuthenticates ==
  [][\A raw \in RawIds, secret \in ProvidedSecrets \ {""} :
       (TokenCall(raw, secret) /\ normalize(raw) \in revokedKeys)
         => (resp'.status = 401 /\ req' = req)]_vars

\* C4: for every device, authCount is the number of /auth/token calls that
\* returned a token for it, plus the calls that have recorded their success
\* and not answered yet; no token is returned for an id without a device.
Recorded(k) ==
  Cardinality({ s \in Handlers :
                  /\ InFlight(s, "token")
                  /\ req[s].key = k
                  /\ req[s].pc \in { "mkdir", "write", "saved" } })

C4_AuthCountIsTokensReturned ==
  \A k \in Keys :
    /\ k \in DOMAIN devices =>
         devices[k].authCount = tokensReturned[k] + Recorded(k)
    /\ k \notin DOMAIN devices => tokensReturned[k] + Recorded(k) = 0

\* C5: the step in which the token service fails answers 500 and changes
\* neither the registry (authCount, lastAuthAt and all else) nor the file,
\* and starts no save.
UpstreamErrorResponse ==
  Respond("token", 500, [error |-> "Failed to create token"])

Saving == { p \in Procs : req[p].pc \in { "mkdir", "write" } }

C5_IssuerFailureRecordsNothing ==
  [][/\ \A s \in Handlers : TokenIssueFailed(s) => resp' = UpstreamErrorResponse
     /\ resp' = UpstreamErrorResponse =>
          /\ devices' = devices
          /\ disk' = disk
          /\ Saving' \subseteq Saving]_vars

\* C5 witness: the token service failed for a verified device
C5_Witness ==
  /\ resp = UpstreamErrorResponse
  /\ \E k \in DOMAIN devices : devices[k].status = "active"

\* The device views an output carries
ViewsIn(r) ==
  IF r.op = "get" /\ r.status = 200 THEN { r.body.device }
  ELSE IF r.op = "list" THEN r.body.devices
  ELSE {}

\* C6: no answer of get, list, revoke or /auth/token has a secret field, in a
\* device view or in the body; only the 200 answer of register has one.
C6_NoSecretInOutputs ==
  /\ \A v \in ViewsIn(resp) : "secret" \notin DOMAIN v
  /\ "secret" \notin DOMAIN resp.body
  /\ "device" \in DOMAIN resp.body =>
       \/ resp.op = "get" /\ "secret" \notin DOMAIN resp.body.device
       \/ resp.op = "register" /\ resp.status = 200

\* C6 witness: a get answered with the view of a registered device
C6_Witness ==
  /\ resp.op = "get"
  /\ resp.status = 200
  /\ resp.body.device.status = "revoked"

\* C7: when every call has returned and no save has failed, devices.json
\* holds the in-memory registry.
Quiescent ==
  /\ req[0].pc \in { "done", "saved" }
  /\ \A s \in Handlers : req[s].op = "idle"

C7_SnapshotEqualsRegistry ==
  (Quiescent /\ ~saveFailed) => disk = File(stringify(devices))

\* C8: the step in which a register call inserts adds exactly one device,
\* under the given id, with status active, authCount 0, lastAuthAt null and
\* the secret the call will return, and changes no other device; the 200
\* answer carries that id and that secret.
C8_RegisterAddsOneDevice ==
  [][\A s \in Handlers :
       /\ Started(s, "register") =>
            LET k == req'[s].key IN
            /\ k \notin DOMAIN devices
            /\ DOMAIN devices' = DOMAIN devices \cup {k}
            /\ \A j \in DOMAIN devices : devices'[j] = devices[j]
            /\ devices'[k].deviceId = k
            /\ devices'[k].status = "active"
            /\ devices'[k].authCount = 0
            /\ devices'[k].lastAuthAt = Null
            /\ devices'[k].secret = req'[s].secret
       /\ Ended(s, "register") =>
            /\ resp'.status = 200
            /\ resp'.body.device =
                 [deviceId |-> req[s].key, secret |-> req[s].secret]
       /\ (resp'.op = "register" /\ resp'.status = 200) =>
            \E q \in Handlers : Ended(q, "register")]_vars

\* C8 witness: a register call returned the credentials of the device it added
C8_Witness ==
  /\ resp.op = "register"
  /\ resp.status = 200
  /\ resp.body.device.deviceId \in DOMAIN devices
  /\ devices[resp.body.device.deviceId].secret = resp.body.device.secret

\* C9: every key of the registry is a canonical identifier
C9_KeysAreCanonical == \A k \in DOMAIN devices : normalize(k) = k

\* The registered devices whose id has the same canonical form as raw
SameDevice(raw) == { k \in DOMAIN devices : normalize(k) = normalize(raw) }

\* C10: register, get, revoke and /auth/token treat a raw id as the device
\* registered under any spelling with the same canonical form.
C10_SpellingsAreOneDevice ==
  [][\A raw \in RawIds :
       SameDevice(raw) # {} =>
         /\ \A md \in Metadatas :
              RegisterCall(raw, md) => resp' = AlreadyRegisteredResponse
         /\ GetCall(raw) => resp'.status = 200
         /\ \A reason \in Reasons :
              RevokeCall(raw, reason) => resp'.status # 400
         /\ \A k \in SameDevice(raw) :
              (devices[k].status = "active" /\ TokenCall(raw, devices[k].secret))
                => resp'.status # 401]_vars

\* The reason for which a token request must be refused, from the registry
FailureReason(raw, secret) ==
  LET k == normalize(raw) IN
  IF k \notin DOMAIN devices THEN "unknown device"
  ELSE IF devices[k].status # "active" THEN "inactive device"
  ELSE IF secret # devices[k].secret THEN "bad secret"
  ELSE "none"

UnauthorizedResponse ==
  Respond("token", 401, [error |-> "Invalid credentials"])

\* C11: a /auth/token call that must be refused, for an unknown device, an
\* inactive device or a wrong secret alike, answers 401 'Invalid credentials'
\* and starts nothing: the answer does not depend on the reason.
C11_FailuresLookAlike ==
  [][\A raw \in RawIds, secret \in ProvidedSecrets \ {""} :
       (TokenCall(raw, secret) /\ FailureReason(raw, secret) # "none")
         => (resp' = UnauthorizedResponse /\ req' = req)]_vars

\* C12: a device whose status is revoked is in the registry with status
\* revoked after every step.
C12_RevokedIsTerminal ==
  [][\A k \in DOMAIN devices :
       devices[k].status = "revoked"
         => (k \in DOMAIN devices' /\ devices'[k].status = "revoked")]_vars

\* C13: no step lowers the authCount of a device; a step that changes it is
\* the recording step of a /auth/token call for that device and adds 1.
C13_AuthCountOnlyGrows ==
  [][\A k \in DOMAIN devices \cap DOMAIN devices' :
       /\ devices'[k].authCount \in Nat
       /\ devices'[k].authCount >= devices[k].authCount
       /\ devices'[k].authCount # devices[k].authCount =>
            /\ devices'[k].authCount = devices[k].authCount + 1
            /\ \E s \in Handlers : TokenIssued(s) /\ req[s].key = k]_vars

\* C14: a device that is in the registry is in the registry after every step.
C14_NeverDeleted ==
  [][DOMAIN devices \subseteq DOMAIN devices']_vars

\* The calls that await saveDevices for a mutation of theirs
Mutations == { "register", "revoke", "token" }

\* The handler slot whose mutating call answers in this step
Answers(s) ==
  /\ req[s].op \in Mutations
  /\ req[s].pc = "saved"
  /\ req'[s].op = "idle"

\* C15: the step in which a save fails logs the error and leaves the registry
\* as it is, and the call whose save failed then answers as it does after a
\* save that worked: 200 with the credentials, the token, or the revoked id,
\* again without a change of the registry.
C15_SaveFailureIsAbsorbed ==
  [][/\ \A p \in Procs :
          (SaveMkdirFailed(p) \/ SaveWriteFailed(p))
            => (devices' = devices /\ saveFailed')
     /\ \A s \in Handlers :
          (Answers(s) /\ req[s].failed) =>
            /\ devices' = devices
            /\ resp'.status = 200
            /\ resp'.op = req[s].op
            /\ req[s].op = "register" =>
                 resp'.body.device =
                   [deviceId |-> req[s].raw, secret |-> req[s].secret]
            /\ req[s].op = "token" => resp'.body.customToken = req[s].token
            /\ req[s].op = "revoke" => resp'.body.deviceId = req[s].raw]_vars

\* C15 witness: the only request so far was a register call, its save failed
\* and it has answered 200; its device is in the registry
C15_Witness ==
  /\ nops = 1
  /\ saveFailed
  /\ ~req[0].failed
  /\ resp.op = "register"
  /\ resp.status = 200
  /\ resp.body.device.deviceId \in DOMAIN devices

\* The text of devices.json has the mutation of the call r
HasMutation(text, r) ==
  /\ r.key \in DOMAIN text
  /\ r.op = "register" => text[r.key].secret = r.secret
  /\ r.op = "revoke" => text[r.key].status = "revoked"
  /\ r.op = "token" => text[r.key].authCount >= 1

\* C16: when a register, revoke or /auth/token call answers and no save has
\* failed, devices.json is a registry text that has the call's mutation.
C16_AnsweredMutationIsDurable ==
  [][\A s \in Handlers :
       (Answers(s) /\ ~saveFailed)
         => (disk.state = "file" /\ HasMutation(disk.text, req[s]))]_vars

\* C17: when loadDevices has returned and no request has arrived yet: if it
\* found a file, the registry is what the file holds; if it found none, it
\* has saved, the registry is empty and, unless that save failed,
\* devices.json holds the empty registry.
C17_LoadInstallsSnapshot ==
  nops = 0 =>
    /\ (req[0] = Loaded /\ disk.state = "file") => devices = parse(disk.text)
    /\ req[0] = Loaded => disk.state = "file"
    /\ req[0].pc \in { "mkdir", "write", "saved" } => devices = EmptyRegistry
    /\ (req[0].pc = "saved" /\ ~req[0].failed)
         => disk = File(stringify(EmptyRegistry))

\* C17 witness: the load has installed a device from the file
C17_Witness ==
  /\ nops = 0
  /\ req[0] = Loaded
  /\ DOMAIN devices # {}

\* C18: a load that fails logs and returns; the registry is then empty until
\* a request changes it, and afterwards a register call for a new id inserts
\* its device and a /auth/token call with the stored secret of an active
\* device is handed to the token service.
C18_LoadFailureIsSurvived ==
  [][/\ (req[0].pc = "malformed" /\ req'[0] # req[0]) => req'[0] = LoadFailed
     /\ (req[0] = LoadFailed /\ nops = 0) => devices = EmptyRegistry
     /\ req[0] = LoadFailed =>
          /\ \A raw \in RawIds, md \in Metadatas :
               (RegisterCall(raw, md) /\ raw \notin DOMAIN devices
                  /\ md.kind # "null")
                 => \E s \in Handlers : Started(s, "register")
          /\ \A s \in Handlers : Ended(s, "register") => resp'.status = 200
          /\ \A raw \in RawIds :
               LET k == normalize(raw) IN
               (/\ k \in DOMAIN devices
                /\ devices[k].status = "active"
                /\ TokenCall(raw, devices[k].secret))
                 => \E s \in Handlers : Started(s, "token")]_vars

\* C18 witness: after a failed load a register call has answered 200 and its
\* device is in the registry
C18_Witness ==
  /\ req[0] = LoadFailed
  /\ resp.op = "register"
  /\ resp.status = 200
  /\ resp.body.device.deviceId \in DOMAIN devices

C20_SecretCheckIsTotal ==
  [][\A raw \in RawIds, v \in ProvidedSecrets \ {""} :
       LET k == normalize(raw) IN
       (TokenCall(raw, v) /\ k \in DOMAIN devices
          /\ devices[k].status = "active") =>
         /\ verifyDevice(devices, k, v) # "throws"
         /\ verifyDevice(devices, k, v) = "verified" <=> v = devices[k].secret
         /\ v # devices[k].secret => resp' = UnauthorizedResponse]_vars

\* Letter case and separator folded away, without normalize
lowerCase(c) ==
  CASE c = "A" -> "a"
    [] c = "B" -> "b"
    [] OTHER -> c

dashed(c) == IF c = ":" THEN "-" ELSE c

\* x and y differ at most in letter case and in '-' versus ':'
Alike(x, y) ==
  /\ Len(x) = Len(y)
  /\ \A i \in 1 .. Len(x) : dashed(lowerCase(x[i])) = dashed(lowerCase(y[i]))

\* C21: the canonical form the route computes for a deviceId is a fixed point
\* of normalize, and it is the canonical form of every id that differs from
\* the deviceId only in letter case and in '-' versus ':'; ids that differ in
\* more than that have another canonical form.
C21_NormalizeIsCanonical ==
  \A s \in Handlers :
    req[s].pc = "normalized" =>
      /\ req[s].key = normalize(req[s].raw)
      /\ normalize(req[s].key) = req[s].key
      /\ normalize(normalize(req[s].raw)) = normalize(req[s].raw)
      /\ \A y \in DeviceIds :
           Alike(req[s].raw, y) <=> normalize(y) = req[s].key

\* C21 witness: a deviceId in lower case with a dash has been normalized, to
\* another string
C21_Witness ==
  \E s \in Handlers :
    /\ req[s].pc = "normalized"
    /\ req[s].raw = <<"a", "-", "b">>
    /\ req[s].key = <<"A", ":", "B">>

\* C22: a revoke call for a device that is in the registry, revoked already
\* or not, sets its status to revoked, its revokedAt to the time of the call
\* and its revokeReason to the reason of the call ('' when none is given),
\* and answers 200.
C22_RevokeSetsFields ==
  [][/\ \A raw \in RawIds, reason \in Reasons :
          (RevokeCall(raw, reason) /\ raw \in DOMAIN devices) =>
            /\ \E s \in Handlers : Started(s, "revoke") /\ req'[s].key = raw
            /\ devices'[raw].status = "revoked"
            /\ devices'[raw].revokedAt = toISOString(now')
            /\ reason # Undefined => devices'[raw].revokeReason = reason
            /\ reason = Undefined => devices'[raw].revokeReason = ""
     /\ \A s \in Handlers :
          Ended(s, "revoke") =>
            /\ resp'.status = 200
            /\ resp'.body.deviceId = req[s].raw]_vars

\* C22 witness: a device was revoked with a reason and then again without
\* one, at a later time
C22_Witness ==
  \E s1, s2 \in Handlers :
    /\ s1 # s2
    /\ InFlight(s1, "revoke")
    /\ InFlight(s2, "revoke")
    /\ req[s1].key = req[s2].key
    /\ req[s1].key \in DOMAIN devices
    /\ devices[req[s1].key].revokedAt = toISOString(1)
    /\ devices[req[s1].key].revokeReason = ""

NotFoundResponse(op, status) ==
  Respond(op, status, [error |-> "Device not found"])

TokenOrder(pc) ==
  CASE pc = "issue" -> { "mkdir", "idle" }
    [] pc = "mkdir" -> { "write", "saved" }
    [] pc = "write" -> { "saved" }
    [] pc = "saved" -> { "idle" }
    [] OTHER -> {}

\* C24: a /auth/token call waits for the token service only after
\* verifyDevice accepted the device; it records the authentication only in
\* the step in which the token service has answered with a token; it sends
\* the token only when updateLastAuth has returned, which is after its save,
\* or at once for a device that is no longer in the registry.
C24_TokenStepsInOrder ==
  [][/\ \A s \in Handlers :
          /\ Started(s, "token") =>
               /\ req'[s].pc = "issue"
               /\ req'[s].token = ""
               /\ \E v \in ProvidedSecrets :
                    verifyDevice(devices, req'[s].key, v) = "verified"
          /\ (req[s].op = "token" /\ req'[s].pc # req[s].pc) =>
               req'[s].pc \in TokenOrder(req[s].pc)
          /\ (req[s].op = "token" /\ req'[s].op = "token"
                /\ req'[s].token # req[s].token) =>
               (req[s].pc = "issue" /\ req'[s].pc = "mkdir")
          /\ (req[s].op = "token" /\ req[s].pc = "issue"
                /\ req'[s].pc = "mkdir") =>
               /\ req'[s].token # ""
               /\ devices'[req[s].key].authCount =
                    devices[req[s].key].authCount + 1
          /\ (Ended(s, "token") /\ resp'.status = 200) =>
               \/ req[s].pc = "saved" /\ req[s].token # ""
               \/ req[s].pc = "issue" /\ req[s].key \notin DOMAIN devices
     /\ (resp'.op = "token" /\ resp'.status = 200) =>
          \E s \in Handlers : Ended(s, "token")]_vars

\* C24 witness: a token was sent for a device whose authentication is
\* recorded and saved
C24_Witness ==
  /\ resp.op = "token"
  /\ resp.status = 200
  /\ \E k \in DOMAIN devices :
       /\ devices[k].authCount = 1
       /\ disk = File(stringify(devices))

\* The reason verifyDevice must log for a device and a provided secret: that
\* of the first check that fails, in the order unknown device, inactive
\* status, bad secret
FirstFailingCheck(devs, k, v) ==
  IF k \notin DOMAIN devs THEN "unknown device"
  ELSE IF devs[k].status # "active" THEN "inactive"
  ELSE IF v # devs[k].secret THEN "invalid secret"
  ELSE "verified"

\* C26: in every /auth/token call that reaches verifyDevice, the outcome of
\* verifyDevice is the one reason of the first failing check, or success when
\* no check fails; in particular the secret of an unknown or inactive device
\* is not looked at.
C26_FirstFailingCheckDecides ==
  [][\A raw \in RawIds, v \in ProvidedSecrets \ {""} :
       TokenCall(raw, v) =>
         verifyDevice(devices, normalize(raw), v)
           = FirstFailingCheck(devices, normalize(raw), v)]_vars

\* C27: no step changes the deviceId, the secret or the registeredAt of a
\* device that is in the registry.
C27_IdentityIsImmutable ==
  [][\A k \in DOMAIN devices \cap DOMAIN devices' :
       /\ devices'[k].deviceId = devices[k].deviceId
       /\ devices'[k].secret = devices[k].secret
       /\ devices'[k].registeredAt = devices[k].registeredAt]_vars

\* The step changes no device but k and neither adds nor removes one
OnlyChanges(k) ==
  /\ DOMAIN devices' = DOMAIN devices
  /\ \A j \in DOMAIN devices \ {k} : devices'[j] = devices[j]

\* C28: the step in which updateLastAuth records an authentication of a
\* device, and the step in which revokeDevice revokes a device, change the
\* record of that device and of no other, whatever other calls are in flight.
C28_OneDevicePerMutation ==
  [][/\ \A s \in Handlers :
          (TokenIssued(s) /\ devices' # devices) =>
            /\ OnlyChanges(req[s].key)
            /\ devices'[req[s].key] # devices[req[s].key]
     /\ \A raw \in RawIds, reason \in Reasons :
          (RevokeCall(raw, reason) /\ raw \in DOMAIN devices) =>
            OnlyChanges(raw)]_vars

\* C28 witness: a token call for one device and a revoke call for another
\* are in flight together, each past its mutation, and each device has its
\* own mutation only
C28_Witness ==
  \E s1, s2 \in Handlers :
    /\ InFlight(s1, "token")
    /\ req[s1].pc = "mkdir"
    /\ InFlight(s2, "revoke")
    /\ req[s1].key # req[s2].key
    /\ devices[req[s1].key].authCount = 1
    /\ devices[req[s1].key].status = "active"
    /\ devices[req[s2].key].authCount = 0
    /\ devices[req[s2].key].status = "revoked"

\* The step is one of an admin get, an admin list or a /auth/verify call
QueryStep ==
  \/ resp'.op \in { "get", "list", "verify" }
  \/ \E s \in Handlers : Started(s, "verify")

VerifiedResponse(idToken) ==
  Respond("verify", 200,
          [valid |-> TRUE, deviceId |-> uid(idToken),
           claims |-> [uid |-> uid(idToken)]])

RejectedResponse ==
  Respond("verify", 401, [valid |-> FALSE, error |-> "verifyIdToken rejected"])

\* C29: a step of an admin get, an admin list or a /auth/verify call, and the
\* lookup of a /auth/token call, leave the registry and devices.json as they
\* are and start no save; the answer of /auth/verify is given by the token
\* and the token service alone, whatever the registry holds.
C29_QueriesLeaveRegistry ==
  [][/\ QueryStep =>
          /\ devices' = devices
          /\ disk' = disk
          /\ Saving' = Saving
     /\ \A raw \in RawIds \cup {NoId}, v \in ProvidedSecrets :
          TokenCall(raw, v) =>
            /\ devices' = devices
            /\ disk' = disk
            /\ Saving' = Saving
     /\ \A s \in Handlers :
          Ended(s, "verify") =>
            resp' \in { VerifiedResponse(req[s].token), RejectedResponse }]_vars

\* C29 witness: /auth/verify accepted a token for a uid that is not in the
\* registry, while another device is
C29_Witness ==
  /\ resp.op = "verify"
  /\ resp.status = 200
  /\ resp.body.deviceId \notin DOMAIN devices
  /\ DOMAIN devices # {}

\* The step changes neither the registry nor devices.json and starts no call
\* of the token service and no save
NothingStarted ==
  /\ devices' = devices
  /\ disk' = disk
  /\ req' = req

MissingFieldsResponse ==
  Respond("token", 400, [error |-> "Missing required fields: deviceId, secret"])

\* C30: a register or revoke call without deviceId, and a /auth/token call
\* without deviceId or without secret, answer 400, whatever the registry
\* holds, and change and start nothing.
C30_MissingFieldIs400 ==
  [][/\ \A md \in Metadatas :
          RegisterCall(NoId, md) =>
            /\ resp' = Respond("register", 400, [error |-> "Missing deviceId"])
            /\ NothingStarted
     /\ \A reason \in Reasons :
          RevokeCall(NoId, reason) =>
            /\ resp' = Respond("revoke", 400, [error |-> "Missing deviceId"])
            /\ NothingStarted
     /\ \A raw \in RawIds \cup {NoId}, v \in ProvidedSecrets :
          (TokenCall(raw, v) /\ (raw = NoId \/ v = "")) =>
            /\ resp' = MissingFieldsResponse
            /\ NothingStarted]_vars

\* C30 witness: a /auth/token call with a missing field was refused while an
\* active device is registered
C30_Witness ==
  /\ resp = MissingFieldsResponse
  /\ \E k \in DOMAIN devices : devices[k].status = "active"

\* C31: in every state every device has lastAuthAt null exactly when its
\* authCount is 0, and a step that changes the lastAuthAt of a device changes
\* its authCount too.
C31_LastAuthIffCounted ==
  /\ [](\A k \in DOMAIN devices :
          devices[k].lastAuthAt = Null <=> devices[k].authCount = 0)
  /\ [][\A k \in DOMAIN devices \cap DOMAIN devices' :
          devices'[k].lastAuthAt # devices[k].lastAuthAt
            => devices'[k].authCount # devices[k].authCount]_vars

\* C31 witness: a device has been authenticated once, at the time its
\* lastAuthAt shows
C31_Witness ==
  \E k \in DOMAIN devices :
    /\ devices[k].authCount = 1
    /\ devices[k].lastAuthAt = toISOString(now)
    /\ tokensReturned[k] = 1

\* present: the property exists, with whatever value
Present(value) == value # Undefined

\* C32: in every state every device has revokedAt and revokeReason both
\* present or both absent, and present exactly when its status is revoked.
C32_RevocationFieldsTogether ==
  \A k \in DOMAIN devices :
    /\ Present(devices[k].revokedAt) <=> Present(devices[k].revokeReason)
    /\ Present(devices[k].revokedAt) <=> devices[k].status = "revoked"

\* C32 witness: a device was revoked by a call that gave no reason
C32_Witness ==
  \E k \in DOMAIN devices :
    /\ devices[k].status = "revoked"
    /\ devices[k].revokeReason = ""
    /\ Present(devices[k].revokedAt)

RecognizedKeys == { "firmwareVersion", "hardwareVersion" }

\* C33: the device a register call inserts has in its metadata every key the
\* caller supplied, with the supplied value, and a recognized key the caller
\* did not supply with the value 'unknown', and no other key; a register call
\* whose metadata is null answers 400 and inserts nothing.
C33_MetadataDefaults ==
  [][\A raw \in RawIds, md \in MoreMetadatas :
       (RegisterCall(raw, md) /\ raw \notin DOMAIN devices) =>
         IF md.kind = "null"
         THEN /\ resp'.status = 400
              /\ devices' = devices
              /\ req' = req
         ELSE /\ raw \in DOMAIN devices'
              /\ DOMAIN devices'[raw].metadata = RecognizedKeys \cup DOMAIN md.obj
              /\ \A f \in DOMAIN md.obj :
                   devices'[raw].metadata[f] = md.obj[f]
              /\ \A f \in RecognizedKeys \ DOMAIN md.obj :
                   devices'[raw].metadata[f] = "unknown"]_vars

\* C33 witness: a device is registered with an empty firmwareVersion as
\* supplied, the hardwareVersion by default and the caller's own key
C33_Witness ==
  \E k \in DOMAIN devices :
    /\ DOMAIN devices[k].metadata = RecognizedKeys \cup { "location" }
    /\ devices[k].metadata.firmwareVersion = ""
    /\ devices[k].metadata.hardwareVersion = "unknown"
    /\ devices[k].metadata.location = "lab"

\* C34: a call that applied its mutation after the save of another call had
\* failed serializes, when its own save reaches JSON.stringify, a registry
\* that has the mutation of every call whose save failed and that has not
\* answered yet; a write that succeeds puts exactly the serialized text in
\* devices.json.
C34_LaterWriteHasFailedMutations ==
  [][\A p \in Handlers :
       /\ (SaveMkdirDone(p) /\ req[p].later) =>
            /\ req'[p].snap = stringify(devices)
            /\ \A q \in FailedUnanswered : HasMutation(req'[p].snap, req[q])
       /\ SaveWriteDone(p) => disk' = File(req[p].snap)]_vars

\* C35: no /auth/token call answers with a token while the device of the
\* call has status revoked in the registry.
C35_NoTokenForRevoked ==
  [][\A s \in Handlers :
       (Ended(s, "token") /\ resp'.status = 200)
         => ~(/\ req[s].key \in DOMAIN devices
              /\ devices[req[s].key].status = "revoked")]_vars

\* C36: no step changes the authCount or the lastAuthAt of a device whose
\* status is revoked.
C36_RevokedIsNotCounted ==
  [][\A k \in DOMAIN devices \cap DOMAIN devices' :
       devices[k].status = "revoked"
         => /\ devices'[k].authCount = devices[k].authCount
            /\ devices'[k].lastAuthAt = devices[k].lastAuthAt]_vars

\* The step in which loadDevices assigns this.devices
LoadAssigns == LoadParsed \/ LoadNoFile

\* C37: the step in which the load started by the constructor assigns the
\* registry keeps every device that the calls served before it have put there,
\* with all its fields, and the credentials of a register call that has
\* registered its device verify after the step as they did before it.
C37_LoadKeepsMutations ==
  [][LoadAssigns =>
       /\ \A k \in DOMAIN devices :
            k \in DOMAIN devices' /\ devices'[k] = devices[k]
       /\ \A s \in Handlers :
            (/\ req[s].op = "register"
             /\ verifyDevice(devices, req[s].key, req[s].secret) = "verified")
              => verifyDevice(devices', req[s].key, req[s].secret)
                   = "verified"]_vars

====
